---- MODULE Spec2Model ----
(***************************************************************************)
(* Model of the concurrent nearest-park pipeline of bunny (src/main.go,    *)
(* second program, lines 233-536) together with the single-threaded        *)
(* reference program (lines 1-231).                                        *)
(*                                                                         *)
(* Goroutines: main (the orchestrator), `nworkers` nearestParks workers,   *)
(* and the anonymous goroutine started by nearestPair (the aggregator).    *)
(* Channels: workQueue and results (buffered, capacity storeCount) and the *)
(* unbuffered channel returned by nearestPair.                             *)
(***************************************************************************)
EXTENDS Integers, Sequences, FiniteSets, TLC

\* ---------------------------------------------------------------- bounds
MaxStores  == 2
MaxParks   == 2
MaxDist    == 2
MaxWorkers == 2

\* ---------------------------------------------------------------- values
\* err != nil from store.Geometry.Distance(park.Geometry)
Err == -1

\* a *ParkDistance: nil, or a pointer to {store, park, distance}
Nil == [isnil |-> TRUE, store |-> 0, park |-> 0, distance |-> 0]

ParkDistance(s, p, d) == [isnil |-> FALSE, store |-> s, park |-> p, distance |-> d]

VARIABLES
    stores,        \* the dispensaries, in file order (identified by index)
    parks,         \* the parks, in file order
    geom,          \* geom[<<s, p>>]: result of store.Geometry.Distance(park.Geometry)
    nworkers,      \* the worker count
    workQueue,     \* buffered channel of stores
    queueClosed,   \* close(workQueue) happened
    results,       \* buffered channel of *ParkDistance
    resultsClosed, \* close(results) happened
    wg,            \* sync.WaitGroup counter
    mainpc,        \* position of main
    i,             \* main: loop variable of the worker start-up loop
    k,             \* main: number of stores already queued
    nearest,       \* main: the value read from finalResult
    wpc,           \* position of each worker
    wstore,        \* worker: loop variable `store`
    wnearest,      \* worker: local `nearest`
    aggpc,         \* position of the nearestPair goroutine
    aggNearest,    \* nearestPair goroutine: local `nearest`
    panicked,      \* "" or the run-time panic that ended the process
    log,           \* history: the orchestrator's events, in order
    takes,         \* history: takes[s] = workers that dequeued store s, in order
    sentBy,        \* history: sentBy[s] = workers that sent an item for store s
    folded,        \* history: number of items the aggregator has received
    drained,       \* history: the set of items the aggregator has received
    published      \* history: number of values delivered on finalResult

vars == <<stores, parks, geom, nworkers, workQueue, queueClosed, results,
          resultsClosed, wg, mainpc, i, k, nearest, wpc, wstore, wnearest,
          aggpc, aggNearest, panicked, log, takes, sentBy, folded, drained, published>>

inputs == <<stores, parks, geom, nworkers>>
mainLocals == <<mainpc, i, k, nearest>>
workerVars == <<wpc, wstore, wnearest>>
aggVars == <<aggpc, aggNearest>>

DistOrErr == (0..MaxDist) \cup {Err}

\* variant: the channels are made one slot too small
storeCountShort == Len(stores) - 1

\* storeCount := len(stores); capacity of workQueue and of results
storeCount == Len(stores)

\* ------------------------------------------------- the per-store scan
\* variant: `<=` instead of `<`, so a later park of equal distance wins
ScanStepLastWins(cur, s, p) ==
    LET distance == geom[<<s, p>>] IN
    IF distance # Err
    THEN IF cur.isnil \/ distance <= cur.distance
         THEN ParkDistance(s, p, distance)
         ELSE cur
    ELSE cur

\* One iteration of `for _, park := range parks` in nearestParks.
ScanStep(cur, s, p) ==
    LET distance == geom[<<s, p>>] IN
    IF distance # Err
    THEN IF cur.isnil \/ distance < cur.distance
         THEN ParkDistance(s, p, distance)
         ELSE cur
    ELSE cur

RECURSIVE ScanFrom(_, _, _)
ScanFrom(cur, s, j) ==
    IF j > Len(parks) THEN cur
    ELSE ScanFrom(ScanStep(cur, s, parks[j]), s, j + 1)

\* variant: the worker starts from a zero-valued record instead of nil
WorkerNearestInitZero == ParkDistance(0, 0, 0)

\* `var nearest *ParkDistance` of the worker loop body
WorkerNearestInit == Nil

\* value of `nearest` at `output <- nearest` for store s
nearestParksScan(s) == ScanFrom(WorkerNearestInit, s, 1)

\* --------------------------------------------- sequential reference
\* nearestPark(parks, store) of the single-threaded program
RECURSIVE nearestParkFrom(_, _, _)
nearestParkFrom(cur, s, j) ==
    IF j > Len(parks) THEN cur
    ELSE LET distance == geom[<<s, parks[j]>>]
             nxt == IF distance # Err /\ (cur.isnil \/ distance < cur.distance)
                    THEN ParkDistance(s, parks[j], distance)
                    ELSE cur
         IN nearestParkFrom(nxt, s, j + 1)

nearestPark(s) == nearestParkFrom(Nil, s, 1)

\* the loop of the single-threaded main; st = [fault, nearest]
RECURSIVE SeqMainFrom(_, _)
SeqMainFrom(st, n) ==
    IF n > Len(stores) \/ st.fault THEN st
    ELSE LET distanceForStore == nearestPark(stores[n]) IN
         IF st.nearest.isnil
         THEN SeqMainFrom([fault |-> FALSE, nearest |-> distanceForStore], n + 1)
         ELSE IF distanceForStore.isnil
              THEN [fault |-> TRUE, nearest |-> st.nearest]
              ELSE IF distanceForStore.distance < st.nearest.distance
                   THEN SeqMainFrom([fault |-> FALSE, nearest |-> distanceForStore], n + 1)
                   ELSE SeqMainFrom(st, n + 1)

SeqMain == SeqMainFrom([fault |-> FALSE, nearest |-> Nil], 1)

\* ------------------------------------------------------------- Init
Init ==
    /\ nworkers \in 1..MaxWorkers
    /\ \E ns \in 0..MaxStores, np \in 0..MaxParks :
          /\ stores = [n \in 1..ns |-> n]
          /\ parks = [n \in 1..np |-> n]
          /\ geom \in [(1..ns) \X (1..np) -> DistOrErr]
          /\ takes = [s \in 1..ns |-> <<>>]
          /\ sentBy = [s \in 1..ns |-> <<>>]
    /\ workQueue = <<>>
    /\ queueClosed = FALSE
    /\ results = <<>>
    /\ resultsClosed = FALSE
    /\ wg = 0
    /\ mainpc = "launch"
    /\ i = 0
    /\ k = 0
    /\ nearest = Nil
    /\ wpc = [w \in 1..nworkers |-> "unstarted"]
    /\ wstore = [w \in 1..nworkers |-> 0]
    /\ wnearest = [w \in 1..nworkers |-> Nil]
    /\ aggpc = "unstarted"
    /\ aggNearest = Nil
    /\ panicked = ""
    /\ log = <<>>
    /\ folded = 0
    /\ drained = {}
    /\ published = 0

\* a run-time panic ends the process: no goroutine takes another step
Running == panicked = ""

\* ------------------------------------------------------------- main
\* one iteration of `for i := 0; i < workers; i++ { wg.Add(1); go nearestParks(...) }`
MainLaunch ==
    /\ Running
    /\ mainpc = "launch"
    /\ i < nworkers
    /\ wg' = wg + 1
    /\ wpc' = [wpc EXCEPT ![i + 1] = "range"]
    /\ i' = i + 1
    /\ log' = Append(log, "launch")
    /\ UNCHANGED <<inputs, workQueue, queueClosed, results, resultsClosed, mainpc,
                   k, nearest, wstore, wnearest, aggVars, panicked, takes,
                   sentBy, folded, drained, published>>

\* variant: the reducer starts from a zero-valued record instead of nil
nearestPairInitZero == ParkDistance(0, 0, 0)

\* `var nearest *ParkDistance` of the nearestPair goroutine
nearestPairInit == Nil

\* finalResult := nearestPair(&wg, results): makes the unbuffered channel and
\* starts the goroutine
MainStartAggregator ==
    /\ Running
    /\ mainpc = "launch"
    /\ i = nworkers
    /\ aggpc' = "range"
    /\ aggNearest' = nearestPairInit
    /\ mainpc' = "enqueue"
    /\ log' = Append(log, "aggregator")
    /\ UNCHANGED <<inputs, workQueue, queueClosed, results, resultsClosed, wg,
                   i, k, nearest, workerVars, panicked, takes, sentBy, folded, drained,
                   published>>

\* one iteration of `for _, store := range stores { workQueue <- store }`;
\* a send blocks while the buffer is full and panics on a closed channel
MainEnqueue ==
    /\ Running
    /\ mainpc = "enqueue"
    /\ k < Len(stores)
    /\ queueClosed \/ Len(workQueue) < storeCount
    /\ IF queueClosed
       THEN /\ panicked' = "send on closed workQueue"
            /\ UNCHANGED <<workQueue, k, log>>
       ELSE /\ workQueue' = Append(workQueue, stores[k + 1])
            /\ k' = k + 1
            /\ log' = Append(log, "enqueue")
            /\ UNCHANGED panicked
    /\ UNCHANGED <<inputs, queueClosed, results, resultsClosed, wg, mainpc, i,
                   nearest, workerVars, aggVars, takes, sentBy, folded, drained, published>>

\* variant: close(workQueue) placed inside the queueing loop
MainCloseQueueEarly ==
    /\ Running
    /\ mainpc = "enqueue"
    /\ queueClosed' = TRUE
    /\ mainpc' = IF k = Len(stores) THEN "wait" ELSE "enqueue"
    /\ log' = Append(log, "closeQueue")
    /\ UNCHANGED <<inputs, workQueue, results, resultsClosed, wg, i, k, nearest,
                   workerVars, aggVars, panicked, takes, sentBy, folded, drained, published>>

\* close(workQueue), reached when the range over stores is exhausted
MainCloseQueue ==
    /\ Running
    /\ mainpc = "enqueue"
    /\ k = Len(stores)
    /\ queueClosed' = TRUE
    /\ mainpc' = "wait"
    /\ log' = Append(log, "closeQueue")
    /\ UNCHANGED <<inputs, workQueue, results, resultsClosed, wg, i, k, nearest,
                   workerVars, aggVars, panicked, takes, sentBy, folded, drained, published>>

\* variant: main does not wait for the workers
MainWaitNoBarrier ==
    /\ Running
    /\ mainpc = "wait"
    /\ mainpc' = "closeResults"
    /\ log' = Append(log, "waitReturn")
    /\ UNCHANGED <<inputs, workQueue, queueClosed, results, resultsClosed, wg, i,
                   k, nearest, workerVars, aggVars, panicked, takes, sentBy,
                   folded, drained, published>>

\* wg.Wait() returns once the counter is zero
MainWait ==
    /\ Running
    /\ mainpc = "wait"
    /\ wg = 0
    /\ mainpc' = "closeResults"
    /\ log' = Append(log, "waitReturn")
    /\ UNCHANGED <<inputs, workQueue, queueClosed, results, resultsClosed, wg, i,
                   k, nearest, workerVars, aggVars, panicked, takes, sentBy,
                   folded, drained, published>>

\* close(results)
MainCloseResults ==
    /\ Running
    /\ mainpc = "closeResults"
    /\ resultsClosed' = TRUE
    /\ mainpc' = "read"
    /\ log' = Append(log, "closeResults")
    /\ UNCHANGED <<inputs, workQueue, queueClosed, results, wg, i, k, nearest,
                   workerVars, aggVars, panicked, takes, sentBy, folded, drained, published>>

\* `result <- nearest` in the goroutine meets `nearest := <-finalResult` in
\* main: the channel is unbuffered, so the two happen as one step, after
\* which the goroutine's function returns
Rendezvous ==
    /\ Running
    /\ aggpc = "send"
    /\ mainpc = "read"
    /\ nearest' = aggNearest
    /\ aggpc' = "done"
    /\ mainpc' = "print"
    /\ published' = published + 1
    /\ log' = Append(log, "read")
    /\ UNCHANGED <<inputs, workQueue, queueClosed, results, resultsClosed, wg, i,
                   k, workerVars, aggNearest, panicked, takes, sentBy, folded, drained>>

\* printStore(nearest.store) and the Println of nearest.park.Name and
\* nearest.distance: a nil `nearest` is dereferenced
MainPrint ==
    /\ Running
    /\ mainpc = "print"
    /\ IF nearest.isnil
       THEN /\ panicked' = "nil dereference"
            /\ UNCHANGED mainpc
       ELSE /\ mainpc' = "done"
            /\ UNCHANGED panicked
    /\ UNCHANGED <<inputs, workQueue, queueClosed, results, resultsClosed, wg, i,
                   k, nearest, workerVars, aggVars, log, takes, sentBy, folded, drained,
                   published>>

\* ---------------------------------------------------------- workers
\* variant: the receive leaves the store in the queue
WorkerTakePeek(w) ==
    /\ Running
    /\ wpc[w] = "range"
    /\ workQueue # <<>>
    /\ LET store == Head(workQueue) IN
          /\ wstore' = [wstore EXCEPT ![w] = store]
          /\ wnearest' = [wnearest EXCEPT ![w] = nearestParksScan(store)]
          /\ takes' = [takes EXCEPT ![store] = Append(@, w)]
    /\ wpc' = [wpc EXCEPT ![w] = "send"]
    /\ UNCHANGED <<inputs, workQueue, queueClosed, results, resultsClosed, wg,
                   mainLocals, aggVars, panicked, log, sentBy, folded, drained, published>>

\* `for store := range input` receives a store, then the loop over parks
\* computes `nearest` for it
WorkerTake(w) ==
    /\ Running
    /\ wpc[w] = "range"
    /\ workQueue # <<>>
    /\ LET store == Head(workQueue) IN
          /\ wstore' = [wstore EXCEPT ![w] = store]
          /\ wnearest' = [wnearest EXCEPT ![w] = nearestParksScan(store)]
          /\ takes' = [takes EXCEPT ![store] = Append(@, w)]
    /\ workQueue' = Tail(workQueue)
    /\ wpc' = [wpc EXCEPT ![w] = "send"]
    /\ UNCHANGED <<inputs, queueClosed, results, resultsClosed, wg, mainLocals,
                   aggVars, panicked, log, sentBy, folded, drained, published>>

\* `output <- nearest`: blocks while the buffer is full, panics on a closed
\* channel; the value sent is whatever `nearest` holds, nil included
WorkerSend(w) ==
    /\ Running
    /\ wpc[w] = "send"
    /\ resultsClosed \/ Len(results) < storeCount
    /\ IF resultsClosed
       THEN /\ panicked' = "send on closed results"
            /\ UNCHANGED <<results, wpc, sentBy>>
       ELSE /\ results' = Append(results, wnearest[w])
            /\ sentBy' = [sentBy EXCEPT ![wstore[w]] = Append(@, w)]
            /\ wpc' = [wpc EXCEPT ![w] = "range"]
            /\ UNCHANGED panicked
    /\ UNCHANGED <<inputs, workQueue, queueClosed, resultsClosed, wg, mainLocals,
                   wstore, wnearest, aggVars, log, takes, folded, drained, published>>

\* variant: the worker returns without calling wg.Done()
WorkerExitNoDone(w) ==
    /\ Running
    /\ wpc[w] = "range"
    /\ workQueue = <<>>
    /\ queueClosed
    /\ wpc' = [wpc EXCEPT ![w] = "done"]
    /\ UNCHANGED <<inputs, workQueue, queueClosed, results, resultsClosed, wg,
                   mainLocals, wstore, wnearest, aggVars, panicked, log, takes,
                   sentBy, folded, drained, published>>

\* the range over input ends when the channel is empty and closed; the
\* function returns and the deferred wg.Done() runs
WorkerExit(w) ==
    /\ Running
    /\ wpc[w] = "range"
    /\ workQueue = <<>>
    /\ queueClosed
    /\ wpc' = [wpc EXCEPT ![w] = "done"]
    /\ wg' = wg - 1
    /\ UNCHANGED <<inputs, workQueue, queueClosed, results, resultsClosed,
                   mainLocals, wstore, wnearest, aggVars, panicked, log, takes,
                   sentBy, folded, drained, published>>

\* ------------------------------------------------------- aggregator
\* variant: `<=` instead of `<`, so a later candidate of equal distance wins
AggReceiveNotStrict ==
    /\ Running
    /\ aggpc = "range"
    /\ results # <<>>
    /\ drained' = drained \cup {Head(results)}
    /\ LET parkDistance == Head(results) IN
          IF aggNearest.isnil
          THEN /\ aggNearest' = parkDistance
               /\ UNCHANGED panicked
          ELSE IF parkDistance.isnil
               THEN /\ panicked' = "nil dereference"
                    /\ UNCHANGED aggNearest
               ELSE /\ aggNearest' = IF parkDistance.distance <= aggNearest.distance
                                     THEN parkDistance
                                     ELSE aggNearest
                    /\ UNCHANGED panicked
    /\ results' = Tail(results)
    /\ folded' = folded + 1
    /\ UNCHANGED <<inputs, workQueue, queueClosed, resultsClosed, wg, mainLocals,
                   workerVars, aggpc, log, takes, sentBy, published>>

\* variant: the comparison is reversed
AggReceiveReversed ==
    /\ Running
    /\ aggpc = "range"
    /\ results # <<>>
    /\ drained' = drained \cup {Head(results)}
    /\ LET parkDistance == Head(results) IN
          IF aggNearest.isnil
          THEN /\ aggNearest' = parkDistance
               /\ UNCHANGED panicked
          ELSE IF parkDistance.isnil
               THEN /\ panicked' = "nil dereference"
                    /\ UNCHANGED aggNearest
               ELSE /\ aggNearest' = IF parkDistance.distance > aggNearest.distance
                                     THEN parkDistance
                                     ELSE aggNearest
                    /\ UNCHANGED panicked
    /\ results' = Tail(results)
    /\ folded' = folded + 1
    /\ UNCHANGED <<inputs, workQueue, queueClosed, resultsClosed, wg, mainLocals,
                   workerVars, aggpc, log, takes, sentBy, published>>

\* one iteration of `for parkDistance := range results`:
\* `nearest == nil || parkDistance.distance < nearest.distance` reads
\* parkDistance.distance only when nearest is not nil
AggReceive ==
    /\ Running
    /\ aggpc = "range"
    /\ results # <<>>
    /\ drained' = drained \cup {Head(results)}
    /\ LET parkDistance == Head(results) IN
          IF aggNearest.isnil
          THEN /\ aggNearest' = parkDistance
               /\ UNCHANGED panicked
          ELSE IF parkDistance.isnil
               THEN /\ panicked' = "nil dereference"
                    /\ UNCHANGED aggNearest
               ELSE /\ aggNearest' = IF parkDistance.distance < aggNearest.distance
                                     THEN parkDistance
                                     ELSE aggNearest
                    /\ UNCHANGED panicked
    /\ results' = Tail(results)
    /\ folded' = folded + 1
    /\ UNCHANGED <<inputs, workQueue, queueClosed, resultsClosed, wg, mainLocals,
                   workerVars, aggpc, log, takes, sentBy, published>>

\* the range over results ends when the channel is empty and closed
AggRangeEnd ==
    /\ Running
    /\ aggpc = "range"
    /\ results = <<>>
    /\ resultsClosed
    /\ aggpc' = "send"
    /\ UNCHANGED <<inputs, workQueue, queueClosed, results, resultsClosed, wg,
                   mainLocals, workerVars, aggNearest, panicked, log, takes,
                   sentBy, folded, drained, published>>

\* ------------------------------------------------------------- Next
Next ==
    \/ MainLaunch
    \/ MainStartAggregator
    \/ MainEnqueue
    \/ MainCloseQueue
    \/ MainWait
    \/ MainCloseResults
    \/ Rendezvous
    \/ MainPrint
    \/ \E w \in 1..nworkers : WorkerTake(w)
    \/ \E w \in 1..nworkers : WorkerSend(w)
    \/ \E w \in 1..nworkers : WorkerExit(w)
    \/ AggReceive
    \/ AggRangeEnd

Spec == Init /\ [][Next]_vars

\* the Go scheduler runs every runnable goroutine eventually
FairSpec ==
    /\ Spec
    /\ WF_vars(MainLaunch \/ MainStartAggregator \/ MainEnqueue \/ MainCloseQueue
               \/ MainWait \/ MainCloseResults \/ MainPrint)
    /\ WF_vars(Rendezvous)
    /\ \A w \in 1..MaxWorkers :
          WF_vars(w \in 1..nworkers /\ (WorkerTake(w) \/ WorkerSend(w) \/ WorkerExit(w)))
    /\ WF_vars(AggReceive \/ AggRangeEnd)

\* ----------------------------------------------------- vocabulary
\* main holds the value read from finalResult
AnswerRead == mainpc \in {"print", "done"}

\* the process has ended: main returned, or a panic stopped it
Halted == panicked # "" \/ mainpc = "done"

AllWorkersDone == \A w \in 1..nworkers : wpc[w] = "done"

\* two answers report the same distance (or are both nil)
SameDistance(a, b) == a.isnil = b.isnil /\ (~a.isnil => a.distance = b.distance)

\* distances of the comparisons that succeeded
SuccDists == {geom[c] : c \in {c \in DOMAIN geom : geom[c] # Err}}

SomeFailed == \E c \in DOMAIN geom : geom[c] = Err

MinSuccDist == CHOOSE d \in SuccDists : \A e \in SuccDists : d <= e

\* number of items sent on results so far
TotalSent == Len(results) + folded

IsPrefix(a, b) == Len(a) <= Len(b) /\ \A n \in 1..Len(a) : a[n] = b[n]

\* the orchestrator's events in program order
ExpectedLog ==
    [n \in 1..nworkers |-> "launch"] \o <<"aggregator">>
    \o [n \in 1..Len(stores) |-> "enqueue"]
    \o <<"closeQueue", "waitReturn", "closeResults", "read">>

\* ------------------------------------------------------------ claims

\* C1 (as stated): once the run has ended, the orchestrator has read a Final
\* Answer whose distance is the one the single-threaded program computes
\* for the same stores, parks and failing comparisons (a run that faults
\* agrees only with a reference that faults).
C1_Orig ==
    Halted =>
        IF AnswerRead
        THEN ~SeqMain.fault /\ SameDistance(nearest, SeqMain.nearest)
        ELSE SeqMain.fault

\* C2: results is closed only when every worker has returned, and no worker
\* ever sends on the closed results channel.
C2_CloseAfterWorkers ==
    /\ resultsClosed => AllWorkersDone
    /\ panicked # "send on closed results"

C2_Witness ==
    /\ resultsClosed
    /\ nworkers >= 2
    /\ \A s \in 1..Len(stores) : sentBy[s] # <<>>
    /\ Len(stores) >= 2

\* C3 (as stated): under fair scheduling the orchestrator eventually reads
\* the Final Answer, and whenever it has, every worker and the aggregator
\* have terminated.
C3_Orig ==
    /\ <>AnswerRead
    /\ [](AnswerRead => AllWorkersDone /\ aggpc = "done")

\* C4: with no parks and at least one store, the value the aggregator
\* publishes and the value main reads are both nil ("no result").
C4_EmptyTargets ==
    (parks = <<>> /\ stores # <<>>) =>
        /\ aggpc \in {"send", "done"} => aggNearest = Nil
        /\ AnswerRead => nearest = Nil

C4_Witness ==
    /\ parks = <<>>
    /\ Len(stores) >= 2
    /\ AnswerRead
    /\ published = 1
    /\ folded = Len(stores)

\* C5: with no stores, nothing is ever sent on results and the value main
\* reads is nil ("no result").
C5_EmptySources ==
    stores = <<>> =>
        /\ TotalSent = 0
        /\ \A w \in 1..nworkers : wpc[w] # "send"
        /\ AnswerRead => nearest = Nil

C5_Witness ==
    /\ stores = <<>>
    /\ AnswerRead
    /\ AllWorkersDone
    /\ published = 1

\* C6 (as stated): when some comparisons fail and some succeed, the run ends
\* with main holding the pair of minimum distance among the successful
\* comparisons, and nothing crashes.
C6_Orig ==
    (Halted /\ SomeFailed /\ SuccDists # {}) =>
        /\ AnswerRead
        /\ ~nearest.isnil
        /\ nearest.distance = MinSuccDist
        /\ geom[<<nearest.store, nearest.park>>] = nearest.distance

\* C7: main's events happen in program order (start every worker, start the
\* aggregator, queue every store, close workQueue, return from wg.Wait,
\* close results, read the answer); workQueue is closed only once every
\* store is queued and nothing is queued afterwards.
C7_Order ==
    /\ IsPrefix(log, ExpectedLog)
    /\ (k > 0 \/ workQueue # <<>>) =>
          /\ \A w \in 1..nworkers : wpc[w] # "unstarted"
          /\ aggpc # "unstarted"
    /\ queueClosed => k = Len(stores)
    /\ panicked # "send on closed workQueue"
    /\ resultsClosed => queueClosed /\ wg = 0
    /\ AnswerRead => resultsClosed

C7_Witness ==
    /\ log = ExpectedLog
    /\ Len(stores) >= 2
    /\ nworkers >= 2

\* C8 (as stated): in a run that has ended the aggregator has published
\* exactly once; it publishes only when results is closed and empty and
\* every item sent has gone through the reduction.
C8_Orig ==
    /\ Halted => published = 1
    /\ published <= 1
    /\ (aggpc \in {"send", "done"}) =>
          resultsClosed /\ results = <<>> /\ folded = TotalSent

\* C9 (as stated): every item on the results channel is a real candidate,
\* never nil.
C9_Orig == \A n \in 1..Len(results) : ~results[n].isnil

\* C10: every store is dequeued by at most one worker, by exactly one once
\* results is closed, and at most one item is sent for it, by that worker.
C10_ExactlyOnce ==
    /\ \A s \in 1..Len(stores) :
          /\ Len(takes[s]) <= 1
          /\ Len(sentBy[s]) <= 1
          /\ sentBy[s] # <<>> => sentBy[s] = takes[s]
    /\ resultsClosed => \A s \in 1..Len(stores) : Len(takes[s]) = 1

C10_Witness ==
    /\ resultsClosed
    /\ Len(stores) >= 2
    /\ takes[1] # takes[2]
    /\ \A s \in 1..Len(stores) : Len(sentBy[s]) = 1

\* ------------------------------------------- claims, second group
\* wg.Wait() has returned
WaitReturned == mainpc \in {"closeResults", "read", "print", "done"}

\* fairness for main and the workers only: the aggregator may be scheduled
\* at any time or not at all
WorkerFairSpec ==
    /\ Spec
    /\ WF_vars(MainLaunch \/ MainStartAggregator \/ MainEnqueue \/ MainCloseQueue
               \/ MainWait \/ MainCloseResults \/ MainPrint)
    /\ \A w \in 1..MaxWorkers :
          WF_vars(w \in 1..nworkers /\ (WorkerTake(w) \/ WorkerSend(w) \/ WorkerExit(w)))

\* C11: the WaitGroup counter is never negative and always equals the number
\* of workers started and not yet returned (each worker that has returned
\* called Done exactly once, whether or not it received a store); wg.Wait
\* returns only when every one of the N workers has returned.
C11_Barrier ==
    /\ wg >= 0
    /\ wg = Cardinality({w \in 1..nworkers : wpc[w] \in {"range", "send"}})
    /\ Cardinality({w \in 1..nworkers : wpc[w] # "unstarted"}) = i
    /\ WaitReturned => AllWorkersDone /\ wg = 0

C11_Witness ==
    /\ WaitReturned
    /\ nworkers >= 2
    /\ Len(stores) = 1
    /\ \E w \in 1..nworkers :
          wpc[w] = "done" /\ \A s \in 1..Len(stores) : takes[s] # <<w>>

\* C12: workQueue never holds more than its capacity, and while main still
\* has a store to queue its send is enabled (the producer never blocks).
C12_ProducerNeverBlocks ==
    /\ Len(workQueue) <= storeCount
    /\ (Running /\ mainpc = "enqueue" /\ k < Len(stores)) => ENABLED MainEnqueue

C12_Witness ==
    /\ Len(stores) >= 2
    /\ Len(workQueue) = Len(stores)
    /\ \A s \in 1..Len(stores) : takes[s] = <<>>
    /\ mainpc = "enqueue"

\* C13 (as stated): with no stores, no worker is ever started.
C13_Orig == stores = <<>> => \A w \in 1..nworkers : wpc[w] = "unstarted"

\* the candidate c is what the scan of store s must produce: nil exactly when
\* every comparison failed, otherwise the first park, in list order, of
\* minimum distance among the successful comparisons
IsFirstNearest(c, s) ==
    IF \A j \in 1..Len(parks) : geom[<<s, parks[j]>>] = Err
    THEN c.isnil
    ELSE /\ ~c.isnil
         /\ c.store = s
         /\ \E j \in 1..Len(parks) :
               /\ c.park = parks[j]
               /\ geom[<<s, parks[j]>>] = c.distance
               /\ \A m \in 1..Len(parks) :
                     geom[<<s, parks[m]>>] # Err =>
                        /\ c.distance <= geom[<<s, parks[m]>>]
                        /\ m < j => c.distance < geom[<<s, parks[m]>>]

\* C14: the value a worker is about to send for its store is the first park
\* of minimum distance among the successful comparisons, and the
\* single-threaded nearestPark computes the same.
C14_FirstMinimum ==
    \A w \in 1..nworkers :
        wpc[w] = "send" =>
            /\ IsFirstNearest(wnearest[w], wstore[w])
            /\ nearestPark(wstore[w]) = wnearest[w]

C14_Witness ==
    \E w \in 1..nworkers :
        /\ wpc[w] = "send"
        /\ Len(parks) >= 2
        /\ geom[<<wstore[w], parks[1]>>] = geom[<<wstore[w], parks[2]>>]
        /\ ~wnearest[w].isnil
        /\ wnearest[w].park = parks[1]

\* the aggregator's best is one of the items drained and no drained
\* candidate is nearer; the answer main reads is that best, with every item
\* sent already drained
C15_Best ==
    /\ ~aggNearest.isnil => aggNearest \in drained
    /\ \A c \in drained :
          ~c.isnil => ~aggNearest.isnil /\ aggNearest.distance <= c.distance
    /\ AnswerRead =>
          /\ nearest = aggNearest
          /\ results = <<>>
          /\ Cardinality({s \in 1..Len(stores) : sentBy[s] # <<>>}) = folded

\* a best that is not nil changes only to a strictly nearer candidate
C15_Step ==
    (~aggNearest.isnil /\ aggNearest' # aggNearest) =>
        ~aggNearest'.isnil /\ aggNearest'.distance < aggNearest.distance

\* C15: at every point the aggregator's best is of minimum distance among
\* the candidates drained so far and is replaced only by a strictly nearer
\* one; the answer read is no farther than any candidate a worker produced.
C15_RunningMin == []C15_Best /\ [][C15_Step]_vars

C15_Witness ==
    /\ AnswerRead
    /\ ~nearest.isnil
    /\ Len(stores) >= 2
    /\ nearest.store = stores[2]
    /\ \E c \in drained : ~c.isnil /\ c.distance > nearest.distance

\* results never holds more than its capacity, at most one item is sent per
\* store, and a worker that is at its send can perform it
C16_SendEnabled ==
    /\ Len(results) <= storeCount
    /\ \A s \in 1..Len(stores) : Len(sentBy[s]) <= 1
    /\ \A w \in 1..nworkers : (Running /\ wpc[w] = "send") => ENABLED WorkerSend(w)

\* C16: a worker's send on results is never blocked, and in every fair
\* execution in which the aggregator receives nothing before wg.Wait
\* returns, every worker returns and wg.Wait does return.
C16_ResultsNeverFull ==
    /\ []C16_SendEnabled
    /\ []((~WaitReturned) => folded = 0) => <>(WaitReturned /\ AllWorkersDone)

C16_Witness ==
    /\ WaitReturned
    /\ folded = 0
    /\ Len(stores) >= 2
    /\ Len(results) = Len(stores)

\* C17 (as stated): no nil candidate is ever dereferenced.
C17_Orig == panicked # "nil dereference"

\* C18 (as stated): the record main reads is the same in every interleaving
\* and for every worker count; in particular it is the record of the run
\* with one worker, where items reach the aggregator in store order, which
\* is the record the in-order reduction SeqMain yields.
C18_Orig == (AnswerRead /\ ~SeqMain.fault) => nearest = SeqMain.nearest

\* stores whose scan reaches the overall minimum distance
MinStores ==
    {s \in 1..Len(stores) :
        \E j \in 1..Len(parks) : geom[<<stores[s], parks[j]>>] # Err
                                 /\ geom[<<stores[s], parks[j]>>] = MinSuccDist}

\* C18 (amended): the answer main reads is nil exactly when no comparison
\* succeeded; otherwise its distance is the overall minimum, its park is the
\* first park of that distance for its store, and its store is one of the
\* stores reaching the minimum -- hence the whole record is fixed by the
\* inputs whenever a single store reaches the minimum.
C18_Amended ==
    AnswerRead =>
        IF SuccDists = {}
        THEN nearest.isnil
        ELSE /\ ~nearest.isnil
             /\ nearest.distance = MinSuccDist
             /\ \E s \in MinStores : nearest.store = stores[s]
             /\ IsFirstNearest(nearest, nearest.store)

C18_Witness ==
    /\ AnswerRead
    /\ Cardinality(MinStores) >= 2
    /\ nearest.store = stores[2]
    /\ nworkers >= 2
====
